---- MODULE Spec2Model ----
(***************************************************************************)
(* Model of src/main.py: the sheet-music -> MP3 pipeline (process_input)   *)
(* and the Notation Cleaner (convert_to_midi with its score transforms).   *)
(*                                                                         *)
(* Time values (offsets, durations) are integers in ticks of 1/12000 of a  *)
(* quarter note, so that 0.001 quarter = 12 ticks, 1/4 quarter = 3000      *)
(* ticks and 1/3 quarter = 4000 ticks are all exact.                       *)
(***************************************************************************)
EXTENDS Integers, Sequences, FiniteSets, TLC

VARIABLES
    cfg,        \* module-level configuration: left_hand, right_hand, strategy, transpose_interval
    run,        \* number of process_input invocations started so far
    doc,        \* the input document of the current run
    pc,         \* position of the current run inside process_input
    fs,         \* notation, MIDI, WAV and MP3 files under output_dir: [dir, kind, idx, fresh]
    images,     \* list returned by convert_to_images (page indices)
    idx,        \* loop index of the per-image loop of run_audiveris
    mxl_files,  \* notation files found for the current run (file records)
    score,      \* the Score inside convert_to_midi
    midi_path,  \* value returned by convert_to_midi
    calls,      \* external tool invocations of the current run, in order
    logged,     \* messages logged by the current run, in order
    stages,     \* stages entered by the current run, in order
    applied,    \* cleaner steps performed by the current convert_to_midi, in order
    loaded,     \* the Score as convert_to_midi loaded it, before any transform
    musescore,  \* what the lookup of the alternate tool returned in this run
    prev        \* base names of the documents of the earlier runs

vars == <<cfg, run, doc, pc, fs, images, idx, mxl_files, score, midi_path,
          calls, logged, stages, applied, loaded, musescore, prev>>

----------------------------------------------------------------------------
(* Bounds *)

MaxPages == 2
MaxRuns == 2

Stems == {"A", "B"}

None == "None"

Range(s) == {s[i] : i \in 1..Len(s)}

Docs ==
    [stem : Stems, pdf : {TRUE}, pages : 0..MaxPages]
        \cup [stem : Stems, pdf : {FALSE}, pages : {1}]

NoDoc == [stem |-> "A", pdf |-> FALSE, pages |-> 1]

----------------------------------------------------------------------------
(* File system helpers *)

\* Page images, logs and the JSON sidecar are written and never read back by
\* the program; they are not tracked.  fresh: written during the current run.
File(d, k, i, fresh) == [dir |-> d, kind |-> k, idx |-> i, fresh |-> fresh]

\* a tool writes (or overwrites) the path during the current run
WriteFile(F, d, k, i) ==
    {f \in F : ~(f.dir = d /\ f.kind = k /\ f.idx = i)} \cup {File(d, k, i, TRUE)}

RECURSIVE WriteFiles(_, _, _, _)
WriteFiles(F, d, k, I) ==
    IF I = {} THEN F
    ELSE LET i == CHOOSE x \in I : TRUE
         IN  WriteFiles(WriteFile(F, d, k, i), d, k, I \ {i})

\* what an earlier run left behind is stale for the next one
Stale(F) == {[f EXCEPT !.fresh = FALSE] : f \in F}

Unlink(F, d, k, i) == {f \in F : ~(f.dir = d /\ f.kind = k /\ f.idx = i)}

Exists(F, d, k, i) == \E f \in F : f.dir = d /\ f.kind = k /\ f.idx = i

\* work_dir.rglob("*.<kind>")
rglob(F, d, k) == {f \in F : f.dir = d /\ f.kind = k}

\* a faulty variant of work_dir, kept for comparison: one directory for every input
work_dir_shared(d) == "output"

\* work_dir = output_dir / input_file.stem
work_dir(d) == d.stem

\* one subprocess.run: the tool, its image arguments, and how it ended
Call(tool, arg, rc) == [tool |-> tool, arg |-> arg, rc |-> rc]

\* subprocess.run(..., check=True): exit status zero, CalledProcessError on a
\* non-zero status, OSError when the executable cannot be launched
Outcomes == {"zero", "nonzero", "oserror"}

----------------------------------------------------------------------------
(* The Score: the elements of the tree in document order.  Offsets are      *)
(* the offsets of the flattened stream.                                     *)

El(cls, offset, dur, pitches, number, src) ==
    [cls |-> cls, offset |-> offset, dur |-> dur, pitches |-> pitches,
     number |-> number, src |-> src]

\* ticks in a quarter note: 12 ticks to 0.001 quarter
Q == 12 * 1000

NoteEl(p, offset, dur) == El("Note", offset, dur, <<p>>, 0, 0)
ChordEl(ps, offset, dur) == El("Chord", offset, dur, ps, 0, 0)
TempoEl(bpm, offset) == El("MetronomeMark", offset, 0, <<>>, bpm, 0)
RepeatEl(offset) == El("Repeat", offset, 0, <<>>, 0, 0)
BracketEl(offset) == El("RepeatBracket", offset, 0, <<>>, 0, 0)

\* Stream.notes: the notes and chords
IsNotRest(e) == e.cls \in {"Note", "Chord"}

RECURSIVE InsertSorted(_, _)
\* Stream.insert(offset, e) into a stream kept sorted by offset: after
\* every element that is not later than e
InsertSorted(s, e) ==
    IF s = <<>> THEN <<e>>
    ELSE IF s[Len(s)].offset <= e.offset THEN Append(s, e)
    ELSE Append(InsertSorted(SubSeq(s, 1, Len(s) - 1), e), s[Len(s)])

RECURSIVE SortByOffset(_)
SortByOffset(s) ==
    IF s = <<>> THEN <<>>
    ELSE InsertSorted(SortByOffset(SubSeq(s, 1, Len(s) - 1)), s[Len(s)])

\* score.flatten().notes
FlatNotes(s) == SortByOffset(SelectSeq(s, IsNotRest))

RECURSIVE MaxOver(_, _)
MaxOver(s, i) ==
    IF i = 0 THEN 0
    ELSE LET m == MaxOver(s, i - 1)
             v == s[i]
         IN  IF v > m THEN v ELSE m

\* Stream.highestTime: where Stream.append places the next element
HighestTime(s) == MaxOver([i \in 1..Len(s) |-> s[i].offset + s[i].dur], Len(s))

\* score.append(part): the parsed file goes after what is there already
AppendPart(s, part, k) ==
    s \o [i \in 1..Len(part) |->
            [part[i] EXCEPT !.offset = @ + HighestTime(s), !.src = k]]

RECURSIVE MinIdx(_)
MinIdx(F) ==
    LET f == CHOOSE x \in F : TRUE
    IN  IF F = {f} THEN f
        ELSE LET g == MinIdx(F \ {f}) IN IF f.idx < g.idx THEN f ELSE g

RECURSIVE natsorted_descending(_)
\* a faulty variant of natsorted, kept for comparison: the files by descending name
natsorted_descending(F) ==
    IF F = {} THEN <<>>
    ELSE LET f == CHOOSE x \in F : \A y \in F : x.idx >= y.idx
         IN  <<f>> \o natsorted_descending(F \ {f})

RECURSIVE natsorted(_)
\* natsorted(mxl_files): the files by ascending name
natsorted(F) ==
    IF F = {} THEN <<>>
    ELSE LET f == MinIdx(F) IN <<f>> \o natsorted(F \ {f})

RECURSIVE Composite(_, _, _)
\* lines 391-394: the files' contents appended in natsorted order
Composite(files, content, k) ==
    IF k = 0 THEN <<>>
    ELSE AppendPart(Composite(files, content, k - 1), content[files[k]], files[k].idx)

\* lines 388-394
Loaded(F, content) ==
    IF Cardinality(F) = 1
    THEN LET f == CHOOSE x \in F : TRUE
         IN  [i \in 1..Len(content[f]) |-> [content[f][i] EXCEPT !.src = f.idx]]
    ELSE Composite(natsorted(F), content, Cardinality(F))

\* score.transpose(k)
Transposed(s, k) ==
    [i \in 1..Len(s) |->
        [s[i] EXCEPT !.pitches = [j \in 1..Len(s[i].pitches) |-> s[i].pitches[j] + k]]]

\* a faulty variant of IsRepeat, kept for comparison: only the barline class is tested
IsRepeatBarlineOnly(e) == e.cls = "Repeat"

\* line 402
IsRepeat(e) == e.cls \in {"Repeat", "RepeatBracket"}
IsTempo(e) == e.cls = "MetronomeMark"
NotRepeat(e) == ~IsRepeat(e)
NotTempo(e) == ~IsTempo(e)

\* lines 401-403
WithoutRepeats(s) == SelectSeq(s, NotRepeat)

UniformTempo == 160

\* lines 406-408
TempoNormalized(s) == <<TempoEl(UniformTempo, 0)>> \o SelectSeq(s, NotTempo)

NoBound == -1
LeftHandMax == 60
RightHandMin == 61

\* a faulty variant of InRange, kept for comparison: the bounds are exclusive
InRangeExclusive(p, min_pitch, max_pitch) ==
    /\ (min_pitch = NoBound \/ p > min_pitch)
    /\ (max_pitch = NoBound \/ p < max_pitch)

InRange(p, min_pitch, max_pitch) ==
    /\ (min_pitch = NoBound \/ p >= min_pitch)
    /\ (max_pitch = NoBound \/ p <= max_pitch)

\* lines 179-194: what one event of the flattened notes contributes
Filtered(e, min_pitch, max_pitch) ==
    IF e.cls = "Note"
    THEN IF InRange(e.pitches[1], min_pitch, max_pitch) THEN <<e>> ELSE <<>>
    ELSE LET pitches == SelectSeq(e.pitches, LAMBDA p : InRange(p, min_pitch, max_pitch))
         IN  IF pitches # <<>>
             THEN <<[e EXCEPT !.pitches = pitches]>>
             ELSE <<>>

RECURSIVE FilterSeq(_, _, _)
FilterSeq(s, min_pitch, max_pitch) ==
    IF s = <<>> THEN <<>>
    ELSE FilterSeq(SubSeq(s, 1, Len(s) - 1), min_pitch, max_pitch)
            \o Filtered(s[Len(s)], min_pitch, max_pitch)

filter_score_by_pitch(s, min_pitch, max_pitch) ==
    SortByOffset(FilterSeq(FlatNotes(s), min_pitch, max_pitch))

Strategies == {"top", "bottom", "first", "last"}

\* round(n.offset, 3): to the nearest 0.001 quarter (12 ticks), ties to even
Round3(o) ==
    LET q == o \div 12
        r == o % 12
    IN  IF r < 6 THEN 12 * q
        ELSE IF r > 6 THEN 12 * (q + 1)
        ELSE IF q % 2 = 0 THEN 12 * q ELSE 12 * (q + 1)

MaxPitchOf(ps) == MaxOver(ps, Len(ps))
MinPitchOf(ps) == CHOOSE p \in Range(ps) : \A x \in Range(ps) : p <= x

\* a faulty variant of Selected, kept for comparison: the strategy is not consulted
SelectedFirstListed(e, strategy) ==
    IF e.cls = "Chord"
    THEN [e EXCEPT !.cls = "Note", !.pitches = <<e.pitches[1]>>]
    ELSE e

\* lines 133-147
Selected(e, strategy) ==
    IF e.cls = "Chord"
    THEN [e EXCEPT !.cls = "Note",
                   !.pitches = CASE strategy = "top" -> <<MaxPitchOf(e.pitches)>>
                                 [] strategy = "bottom" -> <<MinPitchOf(e.pitches)>>
                                 [] strategy = "first" -> <<e.pitches[1]>>
                                 [] strategy = "last" -> <<e.pitches[Len(e.pitches)]>>]
    ELSE e

\* line 143: raised when a chord meets an unknown strategy
MonoRaises(s, strategy) ==
    /\ strategy \notin Strategies
    /\ \E i \in 1..Len(s) : s[i].cls = "Chord"

RECURSIVE NoteDictKeepFirst(_, _)
\* a faulty variant of NoteDict, kept for comparison: an occupied offset keeps its note
NoteDictKeepFirst(flat, strategy) ==
    IF flat = <<>> THEN [k \in {} |-> 0]
    ELSE LET d == NoteDictKeepFirst(SubSeq(flat, 1, Len(flat) - 1), strategy)
             e == flat[Len(flat)]
             k == Round3(e.offset)
         IN  [x \in DOMAIN d \cup {k} |->
                 IF x \in DOMAIN d THEN d[x] ELSE Selected(e, strategy)]

RECURSIVE NoteDict(_, _)
\* lines 127-154: note_dict after the loop over the flattened notes
NoteDict(flat, strategy) ==
    IF flat = <<>> THEN [k \in {} |-> 0]
    ELSE LET d == NoteDict(SubSeq(flat, 1, Len(flat) - 1), strategy)
             e == flat[Len(flat)]
             k == Round3(e.offset)
         IN  [x \in DOMAIN d \cup {k} |-> IF x = k THEN Selected(e, strategy) ELSE d[x]]

RECURSIVE InKeyOrder(_, _)
\* lines 156-159: for offset in sorted(note_dict): insert
InKeyOrder(d, K) ==
    IF K = {} THEN <<>>
    ELSE LET k == CHOOSE x \in K : \A y \in K : x >= y
         IN  InsertSorted(InKeyOrder(d, K \ {k}), d[k])

make_score_monophonic(s, strategy) ==
    LET d == NoteDict(FlatNotes(s), strategy)
    IN  InKeyOrder(d, DOMAIN d)

\* the nearest multiple of grid g
Nearest(v, g) ==
    LET q == v \div g
        r == v % g
    IN  IF 2 * r < g THEN q * g ELSE (q + 1) * g

Dist(a, b) == IF a >= b THEN a - b ELSE b - a

\* quantize with the divisors 4 and 3 of a quarter
Snap(v) ==
    LET a == Nearest(v, Q \div 4)
        b == Nearest(v, Q \div 3)
    IN  IF Dist(v, a) <= Dist(v, b) THEN a ELSE b

\* score.quantize(inPlace=True)
Quantized(s) ==
    [i \in 1..Len(s) |-> [s[i] EXCEPT !.offset = Snap(@), !.dur = Snap(@)]]

\* the configuration globals, lines 79-85
Config(l, r, st, t) ==
    [left_hand |-> l, right_hand |-> r, strategy |-> st, transpose_interval |-> t]

\* their values as the source sets them
strategy == None
left_hand == FALSE
right_hand == FALSE
transpose_interval == 0


----------------------------------------------------------------------------
(* process_input and its stages *)

\* process_input is entered: for the first document, or for the next one
\* (by the same process after a normal return, by a new one after a fault)
StartRun ==
    /\ pc \in {"idle", "done", "crashed"}
    /\ run < MaxRuns
    /\ \E d \in Docs : doc' = d
    /\ run' = run + 1
    /\ pc' = "convert_to_images"
    /\ images' = <<>>
    /\ idx' = 0
    /\ mxl_files' = {}
    /\ score' = <<>>
    /\ midi_path' = None
    /\ calls' = <<>>
    /\ logged' = <<>>
    /\ stages' = <<>>
    /\ applied' = <<>>
    /\ loaded' = <<>>
    /\ musescore' = None
    /\ prev' = IF run = 0 THEN prev ELSE prev \cup {doc.stem}
    /\ fs' = Stale(fs)
    /\ UNCHANGED cfg

convert_to_images ==
    /\ pc = "convert_to_images"
    /\ stages' = Append(stages, "Image Preparer")
    /\ \E decoded \in BOOLEAN :
        IF ~decoded
        THEN \* convert_from_path / shutil.copy raises: nothing up to the
             \* entry point catches it
             /\ pc' = "crashed"
             /\ UNCHANGED <<images, logged>>
        ELSE LET n == IF doc.pdf THEN doc.pages ELSE 1
             IN  /\ images' = [i \in 1..n |-> i]
                 /\ IF n = 0
                    THEN /\ logged' = Append(logged, "No images found or converted.")
                         /\ pc' = "done"
                    ELSE /\ logged' = logged
                         /\ pc' = "run_audiveris"
    /\ UNCHANGED <<prev, musescore, loaded>>
    /\ UNCHANGED <<cfg, run, doc, fs, idx, mxl_files, score, midi_path, calls, applied>>

\* a faulty variant of run_audiveris_batch, kept for comparison: the per-image
\* loop is entered when the batch left no notation, whatever its exit status
run_audiveris_batch_by_output ==
    /\ pc = "run_audiveris"
    /\ stages' = Append(stages, "Recognition Runner")
    /\ \E o \in Outcomes, out \in SUBSET Range(images) :
        /\ calls' = Append(calls, Call("audiveris", images, o))
        /\ fs' = IF o = "oserror"
                 THEN fs
                 ELSE WriteFiles(fs, work_dir(doc), "mxl", out)
        /\ CASE o \in {"zero", "nonzero"} /\ out # {} ->
                    /\ pc' = "discover"
                    /\ UNCHANGED <<idx, logged>>
             [] o \in {"zero", "nonzero"} /\ out = {} ->
                    /\ logged' = Append(logged, "No MusicXML from batch")
                    /\ idx' = 1
                    /\ pc' = "per_image"
             [] o = "oserror" ->
                    /\ pc' = "crashed"
                    /\ UNCHANGED <<idx, logged>>
    /\ UNCHANGED <<cfg, run, doc, images, mxl_files, score, midi_path, applied,
                   prev, musescore, loaded>>

\* lines 296-314
run_audiveris_batch ==
    /\ pc = "run_audiveris"
    /\ stages' = Append(stages, "Recognition Runner")
    /\ \E o \in Outcomes, out \in SUBSET Range(images) :
        /\ calls' = Append(calls, Call("audiveris", images, o))
        /\ fs' = IF o = "oserror"
                 THEN fs
                 ELSE WriteFiles(fs, work_dir(doc), "mxl", out)
        /\ CASE o = "zero" ->
                    /\ pc' = "discover"
                    /\ UNCHANGED <<idx, logged>>
             [] o = "nonzero" ->
                    /\ logged' = Append(logged, "No MusicXML from batch")
                    /\ idx' = 1
                    /\ pc' = "per_image"
             [] o = "oserror" ->
                    /\ pc' = "crashed"
                    /\ UNCHANGED <<idx, logged>>
    /\ UNCHANGED <<prev, musescore, loaded>>
    /\ UNCHANGED <<cfg, run, doc, images, mxl_files, score, midi_path, applied>>

\* a faulty variant of run_audiveris_per_image, kept for comparison: the first failing image ends the loop
run_audiveris_per_image_aborting ==
    /\ pc = "per_image"
    /\ idx <= Len(images)
    /\ \E o \in Outcomes :
        /\ calls' = Append(calls, Call("audiveris", <<images[idx]>>, o))
        /\ fs' = IF o = "zero"
                 THEN WriteFile(fs, work_dir(doc), "mxl", images[idx])
                 ELSE fs
        /\ CASE o = "zero" ->
                    /\ logged' = logged
                    /\ idx' = idx + 1
                    /\ pc' = IF idx = Len(images) THEN "discover" ELSE "per_image"
             [] o = "nonzero" ->
                    /\ logged' = Append(logged, "Audiveris failed for image")
                    /\ idx' = idx + 1
                    /\ pc' = "discover"
             [] o = "oserror" ->
                    /\ pc' = "crashed"
                    /\ UNCHANGED <<idx, logged>>
    /\ UNCHANGED <<cfg, run, doc, images, mxl_files, score, midi_path, stages,
                   applied, prev, musescore, loaded>>

run_audiveris_per_image ==
    /\ pc = "per_image"
    /\ idx <= Len(images)
    /\ \E o \in Outcomes :
        /\ calls' = Append(calls, Call("audiveris", <<images[idx]>>, o))
        /\ fs' = IF o = "zero"
                 THEN WriteFile(fs, work_dir(doc), "mxl", images[idx])
                 ELSE fs
        /\ CASE o = "zero" ->
                    /\ logged' = logged
                    /\ idx' = idx + 1
                    /\ pc' = IF idx = Len(images) THEN "discover" ELSE "per_image"
             [] o = "nonzero" ->
                    /\ logged' = Append(logged, "Audiveris failed for image")
                    /\ idx' = idx + 1
                    /\ pc' = IF idx = Len(images) THEN "discover" ELSE "per_image"
             [] o = "oserror" ->
                    /\ pc' = "crashed"
                    /\ UNCHANGED <<idx, logged>>
    /\ UNCHANGED <<prev, musescore, loaded>>
    /\ UNCHANGED <<cfg, run, doc, images, mxl_files, score, midi_path, stages, applied>>

\* mxl_files = list(work_dir.rglob("*.mxl")) or list(work_dir.rglob("*.xml"))
Discovered(F, d) ==
    IF rglob(F, work_dir(d), "mxl") # {}
    THEN rglob(F, work_dir(d), "mxl")
    ELSE rglob(F, work_dir(d), "xml")

discover ==
    /\ pc = "discover"
    /\ mxl_files' = Discovered(fs, doc)
    /\ pc' = IF mxl_files' = {} THEN "fallback" ELSE "convert_to_midi"
    /\ UNCHANGED <<prev, musescore, loaded>>
    /\ UNCHANGED <<cfg, run, doc, fs, images, idx, score, midi_path, calls,
                   logged, stages, applied>>

\* a faulty variant of FallbackApplies, kept for comparison: the format of the Document is not tested
FallbackAppliesAnyFormat(present, d) == present

\* the two preconditions tested inside try_musescore_fallback
FallbackApplies(present, d) == present /\ d.pdf

try_musescore_fallback ==
    /\ pc = "fallback"
    /\ stages' = Append(stages, "Fallback Recognizer")
    /\ \E present \in BOOLEAN, o \in Outcomes, wrote \in BOOLEAN :
        /\ musescore' = (IF present THEN "musescore3" ELSE None)
        /\ IF ~FallbackApplies(present, doc)
           THEN /\ mxl_files' = {}
                /\ logged' = Append(logged, "No MusicXML files found.")
                /\ pc' = "done"
                /\ UNCHANGED <<fs, calls>>
           ELSE /\ calls' = Append(calls, Call("musescore", <<>>, o))
                /\ fs' = IF wrote /\ o = "zero"
                         THEN WriteFile(fs, work_dir(doc), "mxl", 0)
                         ELSE fs
                /\ CASE o = "zero" /\ Exists(fs', work_dir(doc), "mxl", 0) ->
                            /\ mxl_files' = {f \in rglob(fs', work_dir(doc), "mxl") : f.idx = 0}
                            /\ logged' = logged
                            /\ pc' = "convert_to_midi"
                     [] o = "zero" /\ ~Exists(fs', work_dir(doc), "mxl", 0) ->
                            /\ mxl_files' = {}
                            /\ logged' = Append(logged, "No MusicXML files found.")
                            /\ pc' = "done"
                     [] o = "nonzero" ->
                            /\ mxl_files' = {}
                            /\ logged' = logged \o <<"MuseScore fallback failed.",
                                                      "No MusicXML files found.">>
                            /\ pc' = "done"
                     [] o = "oserror" ->
                            /\ pc' = "crashed"
                            /\ UNCHANGED <<mxl_files, logged>>
    /\ UNCHANGED <<prev, loaded>>
    /\ UNCHANGED <<cfg, run, doc, images, idx, score, midi_path, applied>>

----------------------------------------------------------------------------
(* convert_to_midi, one action per step *)

\* lines 435-437: the except clause
CleanerFails ==
    /\ logged' = Append(logged, "MIDI conversion failed")
    /\ midi_path' = None
    /\ pc' = "convert_midi_to_mp3"

\* lines 384-394
load(Contents) ==
    /\ pc = "convert_to_midi"
    /\ stages' = Append(stages, "Notation Cleaner")
    /\ \E parsed \in BOOLEAN, content \in [mxl_files -> Contents] :
        IF ~parsed
        THEN /\ CleanerFails
             /\ UNCHANGED <<score, applied, loaded>>
        ELSE /\ score' = Loaded(mxl_files, content)
             /\ loaded' = score'
             /\ applied' = <<"load">>
             /\ pc' = "transpose"
             /\ UNCHANGED <<logged, midi_path>>
    /\ UNCHANGED <<prev, musescore>>
    /\ UNCHANGED <<cfg, run, doc, fs, images, idx, mxl_files, calls>>

\* lines 396-398
transpose ==
    /\ pc = "transpose"
    /\ IF cfg.transpose_interval # 0
       THEN /\ score' = Transposed(score, cfg.transpose_interval)
            /\ applied' = Append(applied, "transpose")
       ELSE UNCHANGED <<score, applied>>
    /\ pc' = "remove_repeats"
    /\ UNCHANGED <<prev, musescore, loaded>>
    /\ UNCHANGED <<cfg, run, doc, fs, images, idx, mxl_files, midi_path, calls,
                   logged, stages>>

\* lines 400-403
remove_repeats ==
    /\ pc = "remove_repeats"
    /\ score' = WithoutRepeats(score)
    /\ applied' = Append(applied, "remove_repeats")
    /\ pc' = "tempo"
    /\ UNCHANGED <<prev, musescore, loaded>>
    /\ UNCHANGED <<cfg, run, doc, fs, images, idx, mxl_files, midi_path, calls,
                   logged, stages>>

\* lines 405-408
normalize_tempo ==
    /\ pc = "tempo"
    /\ score' = TempoNormalized(score)
    /\ applied' = Append(applied, "tempo")
    /\ pc' = "hand_check"
    /\ UNCHANGED <<prev, musescore, loaded>>
    /\ UNCHANGED <<cfg, run, doc, fs, images, idx, mxl_files, midi_path, calls,
                   logged, stages>>

\* a faulty variant of hand_check, kept for comparison: the two flags are not compared
hand_check_skipped ==
    /\ pc = "hand_check"
    /\ pc' = "filter"
    /\ UNCHANGED <<cfg, run, doc, fs, images, idx, mxl_files, score, calls,
                   stages, applied, logged, midi_path, prev, musescore, loaded>>

\* lines 410-411
hand_check ==
    /\ pc = "hand_check"
    /\ IF cfg.left_hand /\ cfg.right_hand
       THEN CleanerFails
       ELSE /\ pc' = "filter"
            /\ UNCHANGED <<logged, midi_path>>
    /\ UNCHANGED <<prev, musescore, loaded>>
    /\ UNCHANGED <<cfg, run, doc, fs, images, idx, mxl_files, score, calls,
                   stages, applied>>

\* a faulty variant of hand_filter, kept for comparison: the bounds are applied
\* to the pitches as they were before the transposition
hand_filter_untransposed ==
    /\ pc = "filter"
    /\ IF cfg.left_hand
       THEN /\ score' = Transposed(filter_score_by_pitch(
                             Transposed(score, 0 - cfg.transpose_interval),
                             NoBound, LeftHandMax), cfg.transpose_interval)
            /\ applied' = Append(applied, "filter")
       ELSE IF cfg.right_hand
       THEN /\ score' = Transposed(filter_score_by_pitch(
                             Transposed(score, 0 - cfg.transpose_interval),
                             RightHandMin, NoBound), cfg.transpose_interval)
            /\ applied' = Append(applied, "filter")
       ELSE UNCHANGED <<score, applied>>
    /\ pc' = "monophonic"
    /\ UNCHANGED <<cfg, run, doc, fs, images, idx, mxl_files, midi_path, calls,
                   logged, stages, prev, musescore, loaded>>

\* lines 413-420
hand_filter ==
    /\ pc = "filter"
    /\ IF cfg.left_hand
       THEN /\ score' = filter_score_by_pitch(score, NoBound, LeftHandMax)
            /\ applied' = Append(applied, "filter")
       ELSE IF cfg.right_hand
       THEN /\ score' = filter_score_by_pitch(score, RightHandMin, NoBound)
            /\ applied' = Append(applied, "filter")
       ELSE UNCHANGED <<score, applied>>
    /\ pc' = "monophonic"
    /\ UNCHANGED <<prev, musescore, loaded>>
    /\ UNCHANGED <<cfg, run, doc, fs, images, idx, mxl_files, midi_path, calls,
                   logged, stages>>

\* lines 422-425
monophonic ==
    /\ pc = "monophonic"
    /\ IF cfg.strategy = None
       THEN /\ pc' = "write"
            /\ UNCHANGED <<score, applied, logged, midi_path>>
       ELSE IF MonoRaises(FlatNotes(score), cfg.strategy)
       THEN /\ CleanerFails
            /\ UNCHANGED <<score, applied>>
       ELSE /\ score' = make_score_monophonic(score, cfg.strategy)
            /\ applied' = Append(applied, "monophonic")
            /\ pc' = "write"
            /\ UNCHANGED <<logged, midi_path>>
    /\ UNCHANGED <<prev, musescore, loaded>>
    /\ UNCHANGED <<cfg, run, doc, fs, images, idx, mxl_files, calls, stages>>

\* lines 427-428
write_midi ==
    /\ pc = "write"
    /\ score' = Quantized(score)
    /\ applied' = applied \o <<"quantize", "write">>
    /\ fs' = WriteFile(fs, work_dir(doc), "mid", 0)
    /\ pc' = "extract"
    /\ UNCHANGED <<prev, musescore, loaded>>
    /\ UNCHANGED <<cfg, run, doc, images, idx, mxl_files, midi_path, calls,
                   logged, stages>>

\* lines 429-434
extract_note_sequence ==
    /\ pc = "extract"
    /\ \E read \in BOOLEAN :
        IF ~read
        THEN CleanerFails
        ELSE /\ midi_path' = "mid"
             /\ pc' = "convert_midi_to_mp3"
             /\ logged' = logged
    /\ UNCHANGED <<prev, musescore, loaded>>
    /\ UNCHANGED <<cfg, run, doc, fs, images, idx, mxl_files, score, calls, stages,
                   applied>>

----------------------------------------------------------------------------
(* convert_midi_to_mp3 and play_audio *)

\* a faulty variant of convert_midi_to_mp3, kept for comparison: only the file is tested, not the path
convert_midi_to_mp3_file_only ==
    /\ pc = "convert_midi_to_mp3"
    /\ stages' = Append(stages, "Audio Renderer")
    /\ IF ~Exists(fs, work_dir(doc), "mid", 0)
       THEN /\ logged' = Append(logged, "No valid MIDI to convert.")
            /\ pc' = "done"
       ELSE /\ logged' = logged
            /\ pc' = "fluidsynth"
    /\ UNCHANGED <<cfg, run, doc, fs, images, idx, mxl_files, score, midi_path,
                   calls, applied, prev, musescore, loaded>>

\* lines 456-461
convert_midi_to_mp3 ==
    /\ pc = "convert_midi_to_mp3"
    /\ stages' = Append(stages, "Audio Renderer")
    /\ IF midi_path = None \/ ~Exists(fs, work_dir(doc), "mid", 0)
       THEN /\ logged' = Append(logged, "No valid MIDI to convert.")
            /\ pc' = "done"
       ELSE /\ logged' = logged
            /\ pc' = "fluidsynth"
    /\ UNCHANGED <<prev, musescore, loaded>>
    /\ UNCHANGED <<cfg, run, doc, fs, images, idx, mxl_files, score, midi_path,
                   calls, applied>>

\* lines 463-466
fluidsynth ==
    /\ pc = "fluidsynth"
    /\ \E o \in Outcomes :
        /\ calls' = Append(calls, Call("fluidsynth", <<>>, o))
        /\ CASE o = "zero" ->
                    /\ fs' = WriteFile(fs, work_dir(doc), "wav", 0)
                    /\ logged' = logged
                    /\ pc' = "ffmpeg"
             [] o = "nonzero" ->
                    /\ logged' = Append(logged, "Error converting MIDI to MP3.")
                    /\ pc' = "done"
                    /\ fs' = fs
             [] o = "oserror" ->
                    /\ pc' = "crashed"
                    /\ UNCHANGED <<fs, logged>>
    /\ UNCHANGED <<prev, musescore, loaded>>
    /\ UNCHANGED <<cfg, run, doc, images, idx, mxl_files, score, midi_path,
                   stages, applied>>

\* a faulty variant of ffmpeg, kept for comparison: the exit status of the encoder is not checked
ffmpeg_unchecked ==
    /\ pc = "ffmpeg"
    /\ \E o \in Outcomes :
        /\ calls' = Append(calls, Call("ffmpeg", <<>>, o))
        /\ CASE o \in {"zero", "nonzero"} ->
                    /\ fs' = Unlink(WriteFile(fs, work_dir(doc), "mp3", 0),
                                    work_dir(doc), "wav", 0)
                    /\ logged' = logged
                    /\ pc' = "play_audio"
             [] o = "oserror" ->
                    /\ pc' = "crashed"
                    /\ UNCHANGED <<fs, logged>>
    /\ UNCHANGED <<cfg, run, doc, images, idx, mxl_files, score, midi_path,
                   stages, applied, prev, musescore, loaded>>

\* lines 467-476
ffmpeg ==
    /\ pc = "ffmpeg"
    /\ \E o \in Outcomes :
        /\ calls' = Append(calls, Call("ffmpeg", <<>>, o))
        /\ CASE o = "zero" ->
                    /\ fs' = Unlink(WriteFile(fs, work_dir(doc), "mp3", 0),
                                    work_dir(doc), "wav", 0)
                    /\ logged' = logged
                    /\ pc' = "play_audio"
             [] o = "nonzero" ->
                    /\ logged' = Append(logged, "Error converting MIDI to MP3.")
                    /\ pc' = "done"
                    /\ fs' = fs
             [] o = "oserror" ->
                    /\ pc' = "crashed"
                    /\ UNCHANGED <<fs, logged>>
    /\ UNCHANGED <<prev, musescore, loaded>>
    /\ UNCHANGED <<cfg, run, doc, images, idx, mxl_files, score, midi_path,
                   stages, applied>>

\* lines 226-247: the player's exit status is not checked, and an exception
\* is caught; "none" is a platform with no branch
play_audio ==
    /\ pc = "play_audio"
    /\ stages' = Append(stages, "Playback Trigger")
    /\ \E o \in Outcomes \cup {"none"} :
        /\ calls' = IF o = "none" THEN calls ELSE Append(calls, Call("player", <<>>, o))
        /\ logged' = IF o = "oserror"
                     THEN Append(logged, "Could not play audio")
                     ELSE logged
    /\ pc' = "done"
    /\ UNCHANGED <<prev, musescore, loaded>>
    /\ UNCHANGED <<cfg, run, doc, fs, images, idx, mxl_files, score, midi_path,
                   applied>>

----------------------------------------------------------------------------
(* Specifications *)

Transposes == {0, 1}

Configs ==
    {Config(l, r, st, t) : l \in BOOLEAN, r \in BOOLEAN,
                           st \in Strategies \cup {None, "middle"},
                           t \in Transposes}

\* what a notation file of a pipeline run may hold
PipelineContents ==
    {<<TempoEl(90, 0), RepeatEl(0), NoteEl(60, 0, Q), ChordEl(<<60, 64>>, Q, Q)>>}

Init ==
    /\ cfg = Config(left_hand, right_hand, strategy, transpose_interval)
    /\ run = 0
    /\ doc = NoDoc
    /\ pc = "idle"
    /\ fs = {}
    /\ images = <<>>
    /\ idx = 0
    /\ mxl_files = {}
    /\ score = <<>>
    /\ midi_path = None
    /\ calls = <<>>
    /\ logged = <<>>
    /\ stages = <<>>
    /\ applied = <<>>
    /\ loaded = <<>>
    /\ musescore = None
    /\ prev = {}

Next ==
    \/ StartRun
    \/ convert_to_images
    \/ run_audiveris_batch
    \/ run_audiveris_per_image
    \/ discover
    \/ try_musescore_fallback
    \/ load(PipelineContents)
    \/ transpose
    \/ remove_repeats
    \/ normalize_tempo
    \/ hand_check
    \/ hand_filter
    \/ monophonic
    \/ write_midi
    \/ extract_note_sequence
    \/ convert_midi_to_mp3
    \/ fluidsynth
    \/ ffmpeg
    \/ play_audio

Spec == Init /\ [][Next]_vars

----------------------------------------------------------------------------
(* The Notation Cleaner on its own: convert_to_midi entered with one        *)
(* notation file, for every configuration and every small Score.            *)

MaxEvents == 2

CleanerElements ==
    {NoteEl(p, o, Q) : p \in {60, 61}, o \in {0, Q}}
        \cup {ChordEl(<<60, 64>>, 0, Q), ChordEl(<<64, 61>>, Q, 2 * Q)}
        \cup {TempoEl(90, 0), TempoEl(160, Q)}
        \cup {RepeatEl(Q)}

CleanerContents == UNION {[1..n -> CleanerElements] : n \in 0..MaxEvents}

InitCleaner ==
    /\ cfg \in Configs
    /\ run = 1
    /\ doc = NoDoc
    /\ pc = "convert_to_midi"
    /\ fs = {File(work_dir(NoDoc), "mxl", 1, TRUE)}
    /\ images = <<1>>
    /\ idx = 0
    /\ mxl_files = fs
    /\ score = <<>>
    /\ midi_path = None
    /\ calls = <<Call("audiveris", <<1>>, "zero")>>
    /\ logged = <<>>
    /\ stages = <<"Image Preparer", "Recognition Runner">>
    /\ applied = <<>>
    /\ loaded = <<>>
    /\ musescore = None
    /\ prev = {}

NextCleaner ==
    \/ load(CleanerContents)
    \/ transpose
    \/ remove_repeats
    \/ normalize_tempo
    \/ hand_check
    \/ hand_filter
    \/ monophonic
    \/ write_midi
    \/ extract_note_sequence

SpecCleaner == InitCleaner /\ [][NextCleaner]_vars

----------------------------------------------------------------------------
(* The hand filter on its own: the filtering step of convert_to_midi        *)
(* entered with a tempo-normalised Score of notes and chords around the     *)
(* 60/61 boundary, one hand selected.                                       *)

FilterPitches == 59..62

FilterElements ==
    {NoteEl(p, o, d) : p \in FilterPitches, o \in {0, Q}, d \in {Q, 2 * Q}}
        \cup {ChordEl(<<pq[1], pq[2]>>, o, Q) :
                  pq \in {x \in FilterPitches \X FilterPitches : x[1] # x[2]},
                  o \in {0, Q}}

FilterInputs ==
    {TempoNormalized(s) : s \in UNION {[1..n -> FilterElements] : n \in 0..MaxEvents}}

InitFilter ==
    /\ cfg \in {Config(TRUE, FALSE, None, 0), Config(FALSE, TRUE, None, 0)}
    /\ run = 1
    /\ doc = NoDoc
    /\ pc = "filter"
    /\ fs = {File(work_dir(NoDoc), "mxl", 1, TRUE)}
    /\ images = <<1>>
    /\ idx = 0
    /\ mxl_files = fs
    /\ score \in FilterInputs
    /\ midi_path = None
    /\ calls = <<Call("audiveris", <<1>>, "zero")>>
    /\ logged = <<>>
    /\ stages = <<"Image Preparer", "Recognition Runner", "Notation Cleaner">>
    /\ applied = <<"load", "remove_repeats", "tempo">>
    /\ loaded = score
    /\ musescore = None
    /\ prev = {}

NextFilter == hand_filter

SpecFilter == InitFilter /\ [][NextFilter]_vars

----------------------------------------------------------------------------
(* Properties *)

CallsOf(tool) == {i \in 1..Len(calls) : calls[i].tool = tool}
Invoked(tool) == CallsOf(tool) # {}
ExitedZero(tool) == \E i \in CallsOf(tool) : calls[i].rc = "zero"
Entered(stage) == stage \in Range(stages)
FreshFile(k) == \E f \in rglob(fs, work_dir(doc), k) : f.fresh
Terminal == {"No images found or converted.", "No MusicXML files found.",
             "MIDI conversion failed", "No valid MIDI to convert.",
             "Error converting MIDI to MP3."}
TerminalErrorLogged == Range(logged) \cap Terminal # {}

Rank(stage) ==
    CASE stage = "Image Preparer" -> 1
      [] stage = "Recognition Runner" -> 2
      [] stage = "Fallback Recognizer" -> 3
      [] stage = "Notation Cleaner" -> 4
      [] stage = "Audio Renderer" -> 5
      [] stage = "Playback Trigger" -> 6

\* C1: the stages of a run are entered in the order Image Preparer,
\* Recognition Runner, Fallback Recognizer (entered only when the scan of the
\* working directory found no notation file), Notation Cleaner, Audio
\* Renderer, Playback Trigger; the Notation Cleaner is never entered with zero
\* notation files; the synthesizer and the encoder are never invoked when the
\* Notation Cleaner returned no MIDI path; and a run that produced an MP3 had
\* images, notation files, a MIDI path, a zero exit of the synthesizer and
\* logged no terminal error.
C1_StageOrder ==
    /\ stages # <<>> => stages[1] = "Image Preparer"
    /\ \A i \in 1..(Len(stages) - 1) :
          \/ Rank(stages[i + 1]) = Rank(stages[i]) + 1
          \/ stages[i] = "Recognition Runner" /\ stages[i + 1] = "Notation Cleaner"
    /\ pc = "fallback" => Discovered(fs, doc) = {}
    /\ Entered("Fallback Recognizer") =>
          \A f \in Discovered(fs, doc) : f.idx = 0 /\ f.fresh
    /\ Entered("Notation Cleaner") => mxl_files # {}
    /\ (Invoked("fluidsynth") \/ Invoked("ffmpeg")) =>
          midi_path # None /\ Entered("Notation Cleaner")
    /\ Invoked("ffmpeg") => ExitedZero("fluidsynth")
    /\ FreshFile("mp3") =>
          /\ images # <<>>
          /\ mxl_files # {}
          /\ midi_path # None
          /\ ExitedZero("fluidsynth")
          /\ ExitedZero("ffmpeg")
          /\ ~TerminalErrorLogged

\* C1 witness: a run that went through all six stages, the fallback included,
\* and produced its MP3
C1_Witness ==
    /\ pc = "done"
    /\ stages = <<"Image Preparer", "Recognition Runner", "Fallback Recognizer",
                  "Notation Cleaner", "Audio Renderer", "Playback Trigger">>
    /\ FreshFile("mp3")

C5_NoUncaughtFault == pc # "crashed"

\* C7: the alternate notation tool is invoked only when the scan found no
\* notation file, the tool was found on the host and the Document is a PDF; if
\* the tool is missing or the Document is no PDF the Fallback Recognizer
\* returns empty, invokes nothing and leaves no notation file; the tool is
\* invoked at most once per run, and after a non-zero exit the result is empty.
C7_FallbackGuarded ==
    /\ Invoked("musescore") =>
          /\ musescore # None
          /\ doc.pdf
          /\ \A f \in Discovered(fs, doc) : f.idx = 0 /\ f.fresh
          /\ Entered("Fallback Recognizer")
    /\ (Entered("Fallback Recognizer") /\ (musescore = None \/ ~doc.pdf)) =>
          /\ ~Invoked("musescore")
          /\ mxl_files = {}
          /\ Discovered(fs, doc) = {}
          /\ pc = "done"
    /\ Cardinality(CallsOf("musescore")) <= 1
    /\ (\E i \in CallsOf("musescore") : calls[i].rc = "nonzero") =>
          /\ mxl_files = {}
          /\ pc = "done"
          /\ ~Entered("Notation Cleaner")

\* C7 witness: the engine produced nothing for a PDF, the alternate tool was
\* found, invoked once, and its notation file went on to the Notation Cleaner
C7_Witness ==
    /\ doc.pdf
    /\ musescore # None
    /\ Cardinality(CallsOf("musescore")) = 1
    /\ ExitedZero("musescore")
    /\ Entered("Notation Cleaner")
    /\ \E f \in mxl_files : f.idx = 0

\* C8: playback is entered only when convert_to_midi returned a MIDI path, the
\* MIDI file exists and both the synthesizer and the encoder exited zero;
\* when the Audio Renderer finds no MIDI it invokes no tool and writes neither
\* WAV nor MP3; and whatever the player does, the run returns normally with
\* its MP3 and no terminal error.
C8_PlaybackGuarded ==
    /\ (Entered("Playback Trigger") \/ Invoked("player")) =>
          /\ midi_path # None
          /\ Exists(fs, work_dir(doc), "mid", 0)
          /\ ExitedZero("fluidsynth")
          /\ ExitedZero("ffmpeg")
          /\ \A i \in CallsOf("fluidsynth") \cup CallsOf("ffmpeg") : calls[i].rc = "zero"
          /\ pc = "done"
          /\ FreshFile("mp3")
          /\ ~TerminalErrorLogged
    /\ (Entered("Audio Renderer")
            /\ (midi_path = None \/ ~Exists(fs, work_dir(doc), "mid", 0))) =>
          /\ ~Invoked("fluidsynth")
          /\ ~Invoked("ffmpeg")
          /\ ~Invoked("player")
          /\ ~FreshFile("wav")
          /\ ~FreshFile("mp3")
          /\ ~Entered("Playback Trigger")

\* C8 witness: the player could not be started, and the run still returned
\* with its MP3
C8_Witness ==
    /\ pc = "done"
    /\ Entered("Playback Trigger")
    /\ calls[Len(calls)] = Call("player", <<>>, "oserror")
    /\ FreshFile("mp3")

\* C9: in every run in which the encoder was invoked, the WAV file no longer
\* exists once convert_midi_to_mp3 has returned, whatever the exit status of
\* the encoder.
C9_WavDeleted ==
    (Invoked("ffmpeg") /\ pc = "done") => ~Exists(fs, work_dir(doc), "wav", 0)

\* C10 as claimed: for any two documents run one after the other, the
\* notation files a run finds were all produced during that run.
C10_Isolated == \A f \in mxl_files : f.fresh

\* C10 amended: when the base name of the Document differs from the base
\* names of all documents of earlier runs, the working directory holds only
\* files of the current run, so the notation files found, and the MIDI file
\* tested for existence, were all produced during the current run.
C10_IsolatedByBaseName ==
    (run >= 1 /\ doc.stem \notin prev) =>
        /\ \A f \in mxl_files : f.fresh
        /\ \A f \in Discovered(fs, doc) : f.fresh
        /\ \A f \in fs : f.dir = work_dir(doc) => f.fresh

\* C10 witness: a second run, under another base name, found its own
\* notation while the first run's notation is still on disk
C10_Witness ==
    /\ run = 2
    /\ doc.stem \notin prev
    /\ pc = "convert_to_midi"
    /\ mxl_files # {}
    /\ \E f \in fs : f.kind = "mxl" /\ ~f.fresh

TempoMarks(s) == SelectSeq(s, IsTempo)

\* C2: the Score that convert_to_midi renders to MIDI holds exactly one tempo
\* marking, of 160 BPM, whatever the hand flags (not both), the monophonic
\* strategy and the tempo markings of the notation.
C2_OneTempoAt160 ==
    "write" \in Range(applied) =>
        /\ Len(TempoMarks(score)) = 1
        /\ TempoMarks(score)[1].number = 160

Transforms == {"transpose", "remove_repeats", "tempo"}
Later == {"filter", "monophonic", "quantize", "write"}
BothHands == cfg.left_hand /\ cfg.right_hand

\* C3 as claimed: with both hand flags set, convert_to_midi returns no MIDI
\* path and writes no MIDI file, and when it returns no transpose, repeat
\* removal or tempo normalization has been performed.
C3_FailsBeforeAnyTransform ==
    (BothHands /\ pc = "convert_midi_to_mp3") =>
        /\ midi_path = None
        /\ ~Exists(fs, work_dir(doc), "mid", 0)
        /\ Range(applied) \cap Transforms = {}

\* C3 amended: with both hand flags set, convert_to_midi always fails (no
\* MIDI path, no MIDI file) and the configuration error is raised before any
\* hand filtering, monophonic reduction, quantization or MIDI rendering, but
\* after the loaded Score has been transposed (when the offset is non-zero),
\* stripped of its repeat markings and tempo-normalised.
C3_FailsBeforeFiltering ==
    BothHands =>
        /\ midi_path = None
        /\ ~Exists(fs, work_dir(doc), "mid", 0)
        /\ Range(applied) \cap Later = {}
        /\ pc \notin {"filter", "monophonic", "write", "extract"}
        /\ pc = "convert_midi_to_mp3" =>
              /\ "MIDI conversion failed" \in Range(logged)
              /\ \/ applied = <<>>
                 \/ /\ applied = <<"load">>
                                  \o (IF cfg.transpose_interval # 0
                                      THEN <<"transpose">> ELSE <<>>)
                                  \o <<"remove_repeats", "tempo">>
                    /\ \A i \in 1..Len(score) : ~IsRepeat(score[i])
                    /\ TempoMarks(score) = <<TempoEl(160, 0)>>
                    /\ \A i \in 1..Len(score) :
                          IsNotRest(score[i]) =>
                             \E j \in 1..Len(loaded) :
                                /\ loaded[j].cls = score[i].cls
                                /\ Len(loaded[j].pitches) = Len(score[i].pitches)
                                /\ \A k \in 1..Len(score[i].pitches) :
                                      score[i].pitches[k] =
                                         loaded[j].pitches[k] + cfg.transpose_interval

\* C3 witness: both flags set, a transpose configured, and the error raised
\* on a Score whose repeat marking and tempo marking had been removed
C3_Witness ==
    /\ BothHands
    /\ pc = "convert_midi_to_mp3"
    /\ applied = <<"load", "transpose", "remove_repeats", "tempo">>
    /\ \E i \in 1..Len(loaded) : IsRepeat(loaded[i])
    /\ \E i \in 1..Len(loaded) : IsTempo(loaded[i]) /\ loaded[i].number = 90

\* occurrences of pitch p in events of class c at offset o with duration d
Occ(s, c, o, d, p) ==
    Cardinality({ij \in (1..Len(s)) \X (1..2) :
                    /\ s[ij[1]].cls = c
                    /\ s[ij[1]].offset = o
                    /\ s[ij[1]].dur = d
                    /\ ij[2] <= Len(s[ij[1]].pitches)
                    /\ s[ij[1]].pitches[ij[2]] = p})

PitchesOf(s) == UNION {Range(s[i].pitches) : i \in 1..Len(s)}

\* C6: after hand filtering the Score holds only notes and chords; a pitch of
\* the input is kept, in an event of the same kind, offset and duration,
\* exactly when it is <= 60 (left hand) or >= 61 (right hand); nothing else
\* appears; a chord with no pitch in range leaves no event; and the left and
\* the right filter of the same input keep every input pitch exactly once
\* between them.
C6_HandPartition ==
    (pc = "monophonic" /\ "filter" \in Range(applied)) =>
        LET kept(p) == IF cfg.left_hand THEN p <= 60 ELSE p >= 61
            left == filter_score_by_pitch(loaded, NoBound, 60)
            right == filter_score_by_pitch(loaded, 61, NoBound)
            Keys == {"Note", "Chord"} \X {0, Q} \X {Q, 2 * Q}
        IN  /\ \A i \in 1..Len(score) :
                  /\ score[i].cls \in {"Note", "Chord"}
                  /\ score[i].pitches # <<>>
            /\ \A p \in PitchesOf(score) : kept(p)
            /\ \A k \in Keys, p \in PitchesOf(loaded) \cup PitchesOf(score) :
                  /\ Occ(score, k[1], k[2], k[3], p) =
                        (IF kept(p) THEN Occ(loaded, k[1], k[2], k[3], p) ELSE 0)
                  /\ Occ(left, k[1], k[2], k[3], p) + Occ(right, k[1], k[2], k[3], p)
                        = Occ(loaded, k[1], k[2], k[3], p)
                  /\ Occ(left, k[1], k[2], k[3], p) = 0
                        \/ Occ(right, k[1], k[2], k[3], p) = 0
            /\ Len(score) =
                  Cardinality({i \in 1..Len(loaded) :
                                  /\ IsNotRest(loaded[i])
                                  /\ \E p \in Range(loaded[i].pitches) : kept(p)})

\* C6 witness: left-hand filtering of a chord (60, 61) and a chord (61, 62):
\* the first keeps 60 alone, the second is dropped
C6_Witness ==
    /\ pc = "monophonic"
    /\ cfg.left_hand
    /\ \E i, j \in 1..Len(loaded) :
          /\ loaded[i].pitches = <<60, 61>>
          /\ loaded[j].pitches = <<61, 62>>
    /\ Len(score) = 1
    /\ score[1].cls = "Chord"
    /\ score[1].pitches = <<60>>

----------------------------------------------------------------------------
(* The Score as a tree: repeat removal by the loop of lines 401-403.        *)
(* A node is an element with the elements it contains (none for a leaf).    *)

MaxSiblings == 2

Node(e, ch) == [el |-> e, elements |-> ch]
Leaf(e) == Node(e, <<>>)
PartNode(ch) == Node(El("Part", 0, 0, <<>>, 0, 0), ch)
MeasureNode(ch) == Node(El("Measure", 0, 0, <<>>, 0, 0), ch)

\* el.isStream: the iterator descends into it
IsStream(n) == n.el.cls \in {"Part", "Measure"}

RECURSIVE RemoveOne(_, _)
\* Stream.remove(el): the element leaves the stream that holds it
RemoveOne(s, n) ==
    IF s = <<>> THEN <<>>
    ELSE IF Head(s) = n THEN Tail(s)
    ELSE <<Head(s)>> \o RemoveOne(Tail(s), n)

RECURSIVE ReplaceOne(_, _, _)
\* a contained stream is changed in place: its container holds the changed one
ReplaceOne(s, n, m) ==
    IF s = <<>> THEN <<>>
    ELSE IF Head(s) = n THEN <<m>> \o Tail(s)
    ELSE <<Head(s)>> \o ReplaceOne(Tail(s), n, m)

RECURSIVE RecurseFrom(_, _, _)
\* for el in score.recurse(): the iterator of a stream walks the tuple of
\* elements it took when it was created (src), while remove() acts on the
\* stream itself (live); the iterator of a contained stream is created when
\* the walk reaches it
RecurseFrom(src, i, live) ==
    IF i > Len(src) THEN live
    ELSE LET n == src[i]
         IN  IF IsRepeat(n.el)
             THEN RecurseFrom(src, i + 1, RemoveOne(live, n))
             ELSE IF IsStream(n)
             THEN RecurseFrom(src, i + 1,
                      ReplaceOne(live, n,
                          [n EXCEPT !.elements = RecurseFrom(n.elements, 1, n.elements)]))
             ELSE RecurseFrom(src, i + 1, live)

\* lines 401-403 on the tree
RecurseRemove(tree) == RecurseFrom(tree, 1, tree)

RECURSIVE Flat(_)
\* the leaves of the tree in document order
Flat(tree) ==
    IF tree = <<>> THEN <<>>
    ELSE LET n == Head(tree)
         IN  (IF IsStream(n) THEN Flat(n.elements) ELSE <<n.el>>) \o Flat(Tail(tree))

RECURSIVE HasRepeat(_)
\* a repeat barline or a repeat bracket at any depth of the tree
HasRepeat(tree) ==
    \E i \in 1..Len(tree) :
        \/ tree[i].el.cls \in {"Repeat", "RepeatBracket"}
        \/ HasRepeat(tree[i].elements)

TreeLeaves == {Leaf(RepeatEl(0)), Leaf(BracketEl(0)), Leaf(NoteEl(60, 0, Q))}

Measures == {MeasureNode(ch) : ch \in UNION {[1..n -> TreeLeaves] : n \in 0..MaxSiblings}}

\* a Part whose only Measure opens and closes a repeat, one under a bracket,
\* and one whose Measure holds nothing else than markings next to each other
NestedParts ==
    {PartNode(<<MeasureNode(<<Leaf(RepeatEl(0)), Leaf(NoteEl(60, 0, Q)), Leaf(RepeatEl(Q))>>)>>),
     PartNode(<<Leaf(BracketEl(0)),
                MeasureNode(<<Leaf(RepeatEl(0)), Leaf(RepeatEl(0))>>),
                Leaf(BracketEl(0))>>),
     PartNode(<<MeasureNode(<<Leaf(NoteEl(60, 0, Q))>>),
                MeasureNode(<<Leaf(NoteEl(61, 0, Q))>>)>>)}

Trees ==
    UNION {[1..n -> TreeLeaves \cup Measures \cup NestedParts] : n \in 0..MaxSiblings}

InitRepeats ==
    /\ cfg = Config(left_hand, right_hand, strategy, transpose_interval)
    /\ run = 1
    /\ doc = NoDoc
    /\ pc = "remove_repeats"
    /\ fs = {File(work_dir(NoDoc), "mxl", 1, TRUE)}
    /\ images = <<1>>
    /\ idx = 0
    /\ mxl_files = fs
    /\ score \in Trees
    /\ midi_path = None
    /\ calls = <<Call("audiveris", <<1>>, "zero")>>
    /\ logged = <<>>
    /\ stages = <<"Image Preparer", "Recognition Runner", "Notation Cleaner">>
    /\ applied = <<"load">>
    /\ loaded = score
    /\ musescore = None
    /\ prev = {}

\* lines 400-403, the Score being a tree
remove_repeats_recurse ==
    /\ pc = "remove_repeats"
    /\ score' = RecurseRemove(score)
    /\ applied' = Append(applied, "remove_repeats")
    /\ pc' = "tempo"
    /\ UNCHANGED <<cfg, run, doc, fs, images, idx, mxl_files, midi_path, calls,
                   logged, stages, loaded, musescore, prev>>

NextRepeats == remove_repeats_recurse

SpecRepeats == InitRepeats /\ [][NextRepeats]_vars

\* C11: after the repeat-removal step the Score holds no repeat barline and no
\* repeat bracket at any depth of its tree, whatever the nesting and the
\* adjacency of the markings; every other element is kept, in its stream and
\* in order; and a Score without such a marking is left as it was.
C11_NoRepeatLeft ==
    pc = "tempo" =>
        /\ ~HasRepeat(score)
        /\ Flat(score) = WithoutRepeats(Flat(loaded))
        /\ (~HasRepeat(loaded) => score = loaded)

\* C11 witness: two markings next to each other inside a Measure inside a Part,
\* between two brackets, all removed, the emptied Measure kept.
C11_Witness ==
    /\ pc = "tempo"
    /\ Len(loaded) = 2
    /\ loaded[1] = PartNode(<<Leaf(BracketEl(0)),
                              MeasureNode(<<Leaf(RepeatEl(0)), Leaf(RepeatEl(0))>>),
                              Leaf(BracketEl(0))>>)
    /\ loaded[2] = Leaf(NoteEl(60, 0, Q))
    /\ score = <<PartNode(<<MeasureNode(<<>>)>>), Leaf(NoteEl(60, 0, Q))>>

----------------------------------------------------------------------------
(* Monophonic reduction on its own: the reduction step of convert_to_midi   *)
(* entered with a tempo-normalised Score of notes and chords, some of them  *)
(* within 0.001 quarter of each other, and a known strategy.                *)

\* 5 ticks after the beat: an offset that round(offset, 3) puts on the beat
Jitter == 5

MonoOffsets == {0, Jitter, Q}

MonoElements ==
    {NoteEl(p, o, Q) : p \in {60, 67}, o \in MonoOffsets}
        \cup {ChordEl(ps, o, d) : ps \in {<<60, 64, 67>>, <<64, 67, 60>>},
                                  o \in MonoOffsets, d \in {Q, 2 * Q}}

MonoInputs ==
    {TempoNormalized(s) : s \in UNION {[1..n -> MonoElements] : n \in 0..MaxEvents}}

InitMono ==
    /\ cfg \in {Config(FALSE, FALSE, st, 0) : st \in Strategies}
    /\ run = 1
    /\ doc = NoDoc
    /\ pc = "monophonic"
    /\ fs = {File(work_dir(NoDoc), "mxl", 1, TRUE)}
    /\ images = <<1>>
    /\ idx = 0
    /\ mxl_files = fs
    /\ score \in MonoInputs
    /\ midi_path = None
    /\ calls = <<Call("audiveris", <<1>>, "zero")>>
    /\ logged = <<>>
    /\ stages = <<"Image Preparer", "Recognition Runner", "Notation Cleaner">>
    /\ applied = <<"load", "remove_repeats", "tempo">>
    /\ loaded = score
    /\ musescore = None
    /\ prev = {}

NextMono == monophonic

SpecMono == InitMono /\ [][NextMono]_vars

\* the events the reduction reads, in the order it reads them
MonoRead == FlatNotes(loaded)

\* the events read at the same offset as event i, once rounded
SameOffset(i) == {j \in 1..Len(MonoRead) : Round3(MonoRead[j].offset) = Round3(MonoRead[i].offset)}

\* the pitch the strategy names for a chord, stated over the set of its pitches
Named(ps, st) ==
    CASE st = "top" -> CHOOSE p \in Range(ps) : \A x \in Range(ps) : p >= x
      [] st = "bottom" -> CHOOSE p \in Range(ps) : \A x \in Range(ps) : p <= x
      [] st = "first" -> Head(ps)
      [] st = "last" -> ps[Len(ps)]

\* the elements of the reduced Score at the offset of event i, once rounded
ReducedAt(i) == {k \in 1..Len(score) : Round3(score[k].offset) = Round3(MonoRead[i].offset)}

\* C12: a chord that is the only event at its offset is reduced to exactly one
\* note at that offset, of the chord's duration, whose pitch is the highest of
\* the chord for top, the lowest for bottom, the first listed for first and
\* the last listed for last; for C4 E4 G4 (60, 64, 67) top gives 67 and bottom
\* gives 60.
C12_ChordReduced ==
    (pc = "write" /\ "monophonic" \in Range(applied)) =>
        \A i \in 1..Len(MonoRead) :
            (MonoRead[i].cls = "Chord" /\ SameOffset(i) = {i}) =>
                /\ Cardinality(ReducedAt(i)) = 1
                /\ \A k \in ReducedAt(i) :
                    /\ score[k].cls = "Note"
                    /\ score[k].offset = MonoRead[i].offset
                    /\ score[k].dur = MonoRead[i].dur
                    /\ score[k].pitches = <<Named(MonoRead[i].pitches, cfg.strategy)>>
                    /\ (Range(MonoRead[i].pitches) = {60, 64, 67} /\ cfg.strategy = "top"
                            => score[k].pitches = <<67>>)
                    /\ (Range(MonoRead[i].pitches) = {60, 64, 67} /\ cfg.strategy = "bottom"
                            => score[k].pitches = <<60>>)

\* C12 witness: the chord listed E4 G4 C4, alone on the second beat, reduced
\* with strategy top to G4 of the chord's duration.
C12_Witness ==
    /\ pc = "write"
    /\ cfg.strategy = "top"
    /\ MonoRead = <<NoteEl(60, 0, Q), ChordEl(<<64, 67, 60>>, Q, 2 * Q)>>
    /\ score = <<NoteEl(60, 0, Q), NoteEl(67, Q, 2 * Q)>>

\* the last event read at the offset of event i, once rounded
LastRead(i) == CHOOSE j \in SameOffset(i) : \A x \in SameOffset(i) : j >= x

----------------------------------------------------------------------------
(* The Image Preparer on its own: convert_to_images entered with a PDF of   *)
(* 1..MaxPageCount pages or with a single image.  A file name is the        *)
(* sequence of its character codes.                                         *)

MaxPageCount == 1001

PadWidth == 3

RECURSIVE Digits(_)
\* the decimal digits of n, as character codes
Digits(n) == IF n < 10 THEN <<48 + n>> ELSE Append(Digits(n \div 10), 48 + (n % 10))

RECURSIVE ZeroPadded(_, _)
\* format spec 03: zeros in front up to the width, nothing cut off
ZeroPadded(d, w) == IF Len(d) < w THEN ZeroPadded(<<48>> \o d, w) ELSE d

\* a faulty variant of PageName, kept for comparison: the index is not padded
PageNameUnpadded(i) == <<112, 97, 103, 101, 95>> \o Digits(i) \o <<46, 112, 110, 103>>

\* line 273: f"page_{i+1:03}.png", i + 1 being the 1-based page index
PageName(i) ==
    <<112, 97, 103, 101, 95>> \o ZeroPadded(Digits(i), PadWidth) \o <<46, 112, 110, 103>>

RECURSIVE LexLess(_, _)
\* a < b as Python compares strings
LexLess(a, b) ==
    IF b = <<>> THEN FALSE
    ELSE IF a = <<>> THEN TRUE
    ELSE IF Head(a) # Head(b) THEN Head(a) < Head(b)
    ELSE LexLess(Tail(a), Tail(b))

PageDocs ==
    [stem : {"A"}, pdf : {TRUE}, pages : 1..MaxPageCount]
        \cup [stem : {"A"}, pdf : {FALSE}, pages : {1}]

InitPages ==
    /\ cfg = Config(left_hand, right_hand, strategy, transpose_interval)
    /\ run = 1
    /\ doc \in PageDocs
    /\ pc = "convert_to_images"
    /\ fs = {}
    /\ images = <<>>
    /\ idx = 0
    /\ mxl_files = {}
    /\ score = <<>>
    /\ midi_path = None
    /\ calls = <<>>
    /\ logged = <<>>
    /\ stages = <<>>
    /\ applied = <<>>
    /\ loaded = <<>>
    /\ musescore = None
    /\ prev = {}

NextPages == convert_to_images

SpecPages == InitPages /\ [][NextPages]_vars

\* convert_to_images returned: one path per page, in page order
ReturnedInPageOrder ==
    /\ Len(images) = doc.pages
    /\ \A k \in 1..Len(images) : images[k] = k

\* the names of the returned paths ascend, compared as strings
NamesAscend ==
    \A k \in 1..(Len(images) - 1) : LexLess(PageName(images[k]), PageName(images[k + 1]))

\* C14 as claimed: for every page count N >= 1, convert_to_images returns
\* exactly N paths in page order and their names sort lexically in page order.
C14_NamesSortForAll ==
    pc = "run_audiveris" => (ReturnedInPageOrder /\ NamesAscend)

\* C14 amended: for every page count N >= 1, convert_to_images returns exactly
\* N paths in page order; their names sort lexically in page order when N is
\* below 10^3, the page index then filling exactly the 3 padded digits.
C14_NamesSortWithinPadding ==
    pc = "run_audiveris" =>
        /\ ReturnedInPageOrder
        /\ (doc.pages < 10 ^ PadWidth => NamesAscend)

\* C14 witness: a PDF of 999 pages prepared, the last name being page_999.png.
C14_Witness ==
    /\ pc = "run_audiveris"
    /\ doc.pdf
    /\ Len(images) = 999
    /\ PageName(images[999]) = <<112, 97, 103, 101, 95, 57, 57, 57, 46, 112, 110, 103>>
    /\ PageName(images[9]) = <<112, 97, 103, 101, 95, 48, 48, 57, 46, 112, 110, 103>>

----------------------------------------------------------------------------
(* Notation file names and their natural order *)

\* the notation file the engine exports for page image i: the stem of the
\* image, with the suffix .mxl
NotationName(i) ==
    <<112, 97, 103, 101, 95>> \o ZeroPadded(Digits(i), PadWidth) \o <<46, 109, 120, 108>>

IsDigit(c) == c \in 48..57

RECURSIVE DigitRun(_)
\* the digits a name starts with
DigitRun(a) ==
    IF a = <<>> \/ ~IsDigit(Head(a)) THEN <<>> ELSE <<Head(a)>> \o DigitRun(Tail(a))

RECURSIVE TextRun(_)
\* the characters in front of the first digit of a name
TextRun(a) ==
    IF a = <<>> \/ IsDigit(Head(a)) THEN <<>> ELSE <<Head(a)>> \o TextRun(Tail(a))

RECURSIVE ParseInt(_)
ParseInt(d) ==
    IF d = <<>> THEN 0 ELSE 10 * ParseInt(SubSeq(d, 1, Len(d) - 1)) + (d[Len(d)] - 48)

RECURSIVE NatLess(_, _)
\* a before b in natsorted: a name is read as text, number, text, number, ...
\* and numbers are compared by value
NatLess(a, b) ==
    LET ta == TextRun(a)
        tb == TextRun(b)
        ra == SubSeq(a, Len(ta) + 1, Len(a))
        rb == SubSeq(b, Len(tb) + 1, Len(b))
        da == DigitRun(ra)
        db == DigitRun(rb)
    IN  IF ta # tb THEN LexLess(ta, tb)
        ELSE IF ra = <<>> \/ rb = <<>> THEN ra = <<>> /\ rb # <<>>
        ELSE IF ParseInt(da) # ParseInt(db) THEN ParseInt(da) < ParseInt(db)
        ELSE NatLess(SubSeq(ra, Len(da) + 1, Len(ra)), SubSeq(rb, Len(db) + 1, Len(rb)))

\* the batch invocation exited non-zero and the per-image invocation of every
\* page of the PDF exited zero
BatchFailedAllPagesRead ==
    /\ doc.pdf
    /\ Len(calls) >= 1 + doc.pages
    /\ calls[1] = Call("audiveris", images, "nonzero")
    /\ \A k \in 1..doc.pages : calls[1 + k] = Call("audiveris", <<k>>, "zero")

\* the notation file each element of the loaded Score came from, in order
Sources == [i \in 1..Len(loaded) |-> loaded[i].src]

\* one notation file per page received, and the files appended in page order
OneFilePerPageInOrder ==
    /\ Cardinality(mxl_files) = doc.pages
    /\ {f.idx : f \in mxl_files} = 1..doc.pages
    /\ Range(Sources) = 1..doc.pages
    /\ \A i, j \in 1..Len(loaded) : i < j => Sources[i] <= Sources[j]
    /\ \A f, g \in mxl_files :
          NatLess(NotationName(f.idx), NotationName(g.idx)) <=> f.idx < g.idx
    /\ Head(applied) = "load"
    /\ (pc = "transpose" => (score = loaded /\ ~FreshFile("mid")))

\* the working directory held no notation file when the run began
NoNotationLeftBehind ==
    \A f \in rglob(fs, work_dir(doc), "mxl") \cup rglob(fs, work_dir(doc), "xml") : f.fresh

\* C15 as claimed: when the batch invocation fails and the per-image
\* invocation succeeds for every page of an N-page PDF, the Notation Cleaner
\* receives one notation file per page and appends them in natural order of
\* their names, which is page order, before any transform or MIDI export.
C15_OnePerPageMerged ==
    (BatchFailedAllPagesRead /\ applied # <<>>) => OneFilePerPageInOrder

\* C15 amended: the same, for a run whose working directory held no notation
\* file when the run began.
C15_OnePerPageMergedFromEmpty ==
    (BatchFailedAllPagesRead /\ applied # <<>> /\ NoNotationLeftBehind)
        => OneFilePerPageInOrder

\* the natural order of the notation names is page order for every page index,
\* past the padded width as well (page_999 before page_1000)
NaturalOrderIsPageOrder ==
    \A i \in 1..(MaxPageCount - 1) : NatLess(NotationName(i), NotationName(i + 1))

\* C15 witness: a PDF of two pages, batch failed, both pages read one by one,
\* the two files loaded into one Score, page 1 before page 2.
C15_Witness ==
    /\ BatchFailedAllPagesRead
    /\ NoNotationLeftBehind
    /\ doc.pages = 2
    /\ pc = "transpose"
    /\ Len(loaded) = 8
    /\ Sources = <<1, 1, 1, 1, 2, 2, 2, 2>>
    /\ NaturalOrderIsPageOrder

----------------------------------------------------------------------------
(* Retry policy *)

\* the per-image invocations of the engine made so far in this run
PerImageCalls == {i \in CallsOf("audiveris") : i > 1}

\* C16: in every run the engine is invoked first in batch mode, on the whole
\* list; it is invoked again, once per image at most and in list order, only
\* when the batch invocation exited non-zero, and never when it exited zero,
\* even with no notation written; the alternate tool, the synthesizer and the
\* encoder are each invoked at most once; and the encoder is never invoked
\* after a non-zero exit of the synthesizer.
C16_RetryPolicy ==
    /\ Invoked("audiveris") =>
          /\ calls[1] = Call("audiveris", images, calls[1].rc)
          /\ \A i \in PerImageCalls :
                /\ calls[1].rc = "nonzero"
                /\ i <= 1 + Len(images)
                /\ calls[i].arg = <<images[i - 1]>>
          /\ calls[1].rc = "zero" => Cardinality(CallsOf("audiveris")) = 1
          /\ Cardinality(CallsOf("audiveris")) <= 1 + Len(images)
    /\ \A i \in 1..Len(calls) : calls[i].tool = "audiveris" => i <= 1 + Len(images)
    /\ Cardinality(CallsOf("musescore")) <= 1
    /\ Cardinality(CallsOf("fluidsynth")) <= 1
    /\ Cardinality(CallsOf("ffmpeg")) <= 1
    /\ Invoked("ffmpeg") =>
          \E i \in CallsOf("fluidsynth") :
              /\ calls[i].rc = "zero"
              /\ \A j \in CallsOf("ffmpeg") : i < j

\* C16 witness: the batch invocation exited zero and wrote no notation for a
\* PDF of two pages; the engine was not invoked again, the alternate tool was
\* invoked once and failed, and the run ended.
C16_Witness ==
    /\ pc = "done"
    /\ doc.pdf /\ doc.pages = 2
    /\ ~FreshFile("mxl")
    /\ calls = <<Call("audiveris", <<1, 2>>, "zero"), Call("musescore", <<>>, "nonzero")>>

----------------------------------------------------------------------------
(* Order of the cleaner's steps *)

StepRank(step) ==
    CASE step = "load" -> 0
      [] step = "transpose" -> 1
      [] step = "remove_repeats" -> 2
      [] step = "tempo" -> 3
      [] step = "filter" -> 4
      [] step = "monophonic" -> 5
      [] step = "quantize" -> 6
      [] step = "write" -> 7

Done(step) == step \in Range(applied)

HandSet == cfg.left_hand \/ cfg.right_hand

\* the loaded Score after transposition, repeat removal and tempo normalization
Cleaned == TempoNormalized(WithoutRepeats(Transposed(loaded, cfg.transpose_interval)))

\* C17: the steps of convert_to_midi are performed in one order: transpose
\* (exactly when the offset is non-zero) before anything else, then repeat
\* removal, then tempo normalization, then hand filtering (exactly when one
\* hand flag is set), then monophonic reduction (only when a strategy is set),
\* then quantization, then MIDI rendering; the filter reads transposed
\* pitches, and the reduction reads the filtered Score.
C17_FixedOrder ==
    /\ \A i, j \in 1..Len(applied) : i < j => StepRank(applied[i]) < StepRank(applied[j])
    /\ applied # <<>> => Head(applied) = "load"
    /\ Done("transpose") => cfg.transpose_interval # 0
    /\ (Done("remove_repeats") /\ cfg.transpose_interval # 0) => Done("transpose")
    /\ Done("tempo") => Done("remove_repeats")
    /\ Done("filter") => (HandSet /\ Done("tempo"))
    /\ Done("monophonic") => (cfg.strategy # None /\ Done("tempo"))
    /\ ((Done("monophonic") \/ Done("quantize")) /\ HandSet) => Done("filter")
    /\ Done("quantize") => (Done("tempo") /\ (cfg.strategy # None => Done("monophonic")))
    /\ Done("write") => Done("quantize")
    /\ pc = "tempo" => score = WithoutRepeats(Transposed(loaded, cfg.transpose_interval))
    /\ pc = "hand_check" => score = Cleaned
    /\ Done("filter") =>
          \A i \in 1..Len(score) : \A k \in 1..Len(score[i].pitches) :
              /\ score[i].pitches[k] - cfg.transpose_interval \in PitchesOf(loaded)
              /\ cfg.left_hand => score[i].pitches[k] <= 60
              /\ cfg.right_hand => score[i].pitches[k] >= 61
    /\ (pc = "monophonic" /\ Done("filter")) =>
          \A p \in PitchesOf(loaded) :
              (p + cfg.transpose_interval \in PitchesOf(score))
                 <=> (IF cfg.left_hand THEN p + cfg.transpose_interval <= 60
                                       ELSE p + cfg.transpose_interval >= 61)
    /\ Done("monophonic") => \A i \in 1..Len(score) : score[i].cls = "Note"
    /\ Done("write") =>
          \A i \in 1..Len(score) : score[i].offset % (Q \div 12) = 0

\* C17 witness: every step performed, on a Score whose C4 the transposition
\* moved to the right-hand side of the boundary.
C17_Witness ==
    /\ cfg = Config(FALSE, TRUE, "top", 1)
    /\ applied = <<"load", "transpose", "remove_repeats", "tempo", "filter",
                   "monophonic", "quantize", "write">>
    /\ [i \in 1..Len(loaded) |-> loaded[i].pitches] = <<<<60>>, <<61>>>>
    /\ [i \in 1..Len(loaded) |-> loaded[i].offset] = <<0, Q>>
    /\ [i \in 1..Len(score) |-> score[i].pitches] = <<<<61>>, <<62>>>>

----------------------------------------------------------------------------
(* Unknown strategy; ends of a run *)

\* C18: with a strategy other than top, bottom, first and last configured,
\* convert_to_midi returns no MIDI path, whatever the Score holds.
C18_UnknownStrategyFails ==
    (cfg.strategy \notin Strategies \cup {None} /\ pc = "convert_midi_to_mp3")
        => midi_path = None

\* every tool invoked so far in this run was launched and returned
EveryToolReturned == \A i \in 1..Len(calls) : calls[i].rc \in {"zero", "nonzero"}

\* C19: a run in which every tool invocation returned ends either with an MP3
\* produced by this run and no terminal error logged, or with a terminal error
\* logged and no MP3 produced by this run.
C19_EndsWithMp3OrError ==
    (pc \in {"done", "crashed"} /\ EveryToolReturned) =>
        \/ (FreshFile("mp3") /\ ~TerminalErrorLogged)
        \/ (TerminalErrorLogged /\ ~FreshFile("mp3"))

====
